---- MODULE Spec2Model ----
(***************************************************************************)
(* Model of the Monte Carlo sphere-volume pipeline: genmt.cpp (the status  *)
(* generator), estimation.cpp (the replicate orchestrator, the simulation  *)
(* and printResult) and settings.h.                                        *)
(*                                                                         *)
(* Reals are exact rationals <<n, d>> (d > 0), with the IEEE specials      *)
(* <<0, 0>> = NaN, <<1, 0>> = +inf, <<-1, 0>> = -inf.  The f64 estimate of *)
(* a simulation is a binary float <<m, e>> = m * 2^e with a MantBits-bit   *)
(* mantissa, rounded to nearest, ties to even, so that bitwise equality of *)
(* two estimates is equality of the pairs.                                 *)
(***************************************************************************)
EXTENDS Integers, Sequences, FiniteSets, TLC

\* ------------------------------------------------------------------ bounds
MaxReplicates == 2      \* REPLICATES ranges over 0..MaxReplicates
MaxPoints == 5          \* POINTS ranges over 1..MaxPoints
MantBits == 5           \* mantissa width of the model's f64
MaxTicks == 1           \* a measured duration is 1..MaxTicks clock ticks
MaxStatReplicates == 145 \* printResult is applied to replicates in 0..MaxStatReplicates
MaxAggReplicates == 3   \* the aggregation is applied to 2..MaxAggReplicates estimates
MaxSizeSteps == 60      \* SIZE is computed for POINTS = PointsStep * (1..MaxSizeSteps)

\* ------------------------------------------------------- program constants
DIMENSION == 3
SEED == 10              \* 0b1010...1010, reduced modulo the toy generator's modulus
RngMod == 32
RngHalfOpen == 4        \* flat() yields the grid value (0..RngHalfOpen-1)/RngHalfOpen

VARIABLES
  REPLICATES,   \* settings.h REPLICATES (K), fixed for a run
  POINTS,       \* settings.h POINTS, fixed for a run
  evalPar,      \* how the build evaluates 8.*in/points in the thread entry point
  evalSeq,      \* how the build evaluates 8.*in/points in the call inlined in main
  mtRng,        \* genmt: the master engine
  status,       \* the status files: replicate index -> saved engine state
  pc,           \* position of the programs: genmt's main, then estimation's main
  i,            \* the loop index of the current loop of main
  rng,          \* states[k].rng
  value,        \* states[k].value
  duration,     \* states[k].duration
  thread,       \* states[k].thread: "none", "running", "finished", "joined"
  remaining,    \* thread k: trials left in computeSphereVolume's loop
  inCnt,        \* thread k: the local counter 'in'
  results,      \* main: results[k]
  mean,         \* main: mean accumulator
  squared_mean, \* main: squared_mean accumulator
  report,       \* what printResult reported, NoReport before
  seqDuration,  \* main: the accumulated sequential duration
  verdict,      \* per replicate: "none", "confirmed", "issue"
  drawn,        \* history: the draws <<stream, pos>> of replicate k's latest run
  coords,       \* history: the points <<x, y, z>> of replicate k's latest run
  loadFailed,   \* history: the loads <<pass, k>> that failed
  statArgs      \* the arguments of the printResult call under SpecStats

vars == <<REPLICATES, POINTS, evalPar, evalSeq, mtRng, status, pc, i, rng, value,
          duration, thread, remaining, inCnt, results, mean, squared_mean, report,
          seqDuration, verdict, drawn, coords, loadFailed, statArgs>>

\* ------------------------------------------------------------- arithmetic
RECURSIVE Pow2(_)
Pow2(n) == IF n = 0 THEN 1 ELSE 2 * Pow2(n - 1)

Abs(x) == IF x < 0 THEN -x ELSE x

RECURSIVE GCD(_, _)
GCD(a, b) == IF b = 0 THEN a ELSE GCD(b, a % b)

\* rationals with IEEE specials
NaN == <<0, 0>>
PosInf == <<1, 0>>
NegInf == <<-1, 0>>
Sign(x) == IF x > 0 THEN 1 ELSE IF x < 0 THEN -1 ELSE 0
IsFinite(q) == q[2] # 0
Rat(n, d) ==
  IF d = 0 THEN <<Sign(n), 0>>
  ELSE LET g == GCD(Abs(n), Abs(d))
           s == IF d < 0 THEN -1 ELSE 1
       IN <<(s * n) \div g, (s * d) \div g>>
RInt(n) == <<n, 1>>
RAdd(a, b) ==
  IF IsFinite(a) /\ IsFinite(b)
  THEN LET g == GCD(a[2], b[2])
       IN Rat(a[1] * (b[2] \div g) + b[1] * (a[2] \div g), (a[2] \div g) * b[2])
  ELSE IF a = NaN \/ b = NaN THEN NaN
  ELSE IF IsFinite(a) THEN b
  ELSE IF IsFinite(b) THEN a
  ELSE IF a = b THEN a ELSE NaN
RNeg(a) == <<-a[1], a[2]>>
RSub(a, b) == RAdd(a, RNeg(b))
RMul(a, b) ==
  IF IsFinite(a) /\ IsFinite(b)
  THEN LET g1 == GCD(Abs(a[1]), b[2])
           g2 == GCD(Abs(b[1]), a[2])
       IN Rat((a[1] \div g1) * (b[1] \div g2), (a[2] \div g2) * (b[2] \div g1))
  ELSE <<Sign(a[1]) * Sign(b[1]), 0>>
RInv(b) ==
  IF IsFinite(b) THEN (IF b[1] < 0 THEN <<-b[2], -b[1]>> ELSE <<b[2], b[1]>>)
  ELSE IF b = NaN THEN NaN ELSE RInt(0)
\* a / b; x / 0 is +-inf and 0 / 0 is NaN, as in IEEE arithmetic
RDiv(a, b) ==
  IF IsFinite(b) /\ b[1] = 0
  THEN (IF IsFinite(a) THEN <<Sign(a[1]), 0>> ELSE a)
  ELSE RMul(a, RInv(b))
RLess(a, b) == a # NaN /\ b # NaN /\ a # b /\ RSub(b, a)[1] > 0
RLeq(a, b) == a # NaN /\ b # NaN /\ (a = b \/ RSub(b, a)[1] > 0)
RAbs(a) == <<Abs(a[1]), a[2]>>

\* the integer square root, by bisection
RECURSIVE ISqrtIn(_, _, _)
ISqrtIn(n, lo, hi) ==
  IF lo >= hi THEN lo
  ELSE LET mid == (lo + hi + 1) \div 2
       IN IF mid <= n \div mid THEN ISqrtIn(n, mid, hi) ELSE ISqrtIn(n, lo, mid - 1)
ISqrt(n) == IF n = 0 THEN 0 ELSE ISqrtIn(n, 1, n)
IsSquare(n) == ISqrt(n) * ISqrt(n) = n

\* binary floats <<m, e>>: round the rational n/d (n >= 0, d > 0) to MantBits bits
RECURSIVE RoundRat(_, _, _)
RoundRat(n, d, e) ==
  IF n = 0 THEN <<0, 0>>
  ELSE IF n >= d * Pow2(MantBits) THEN RoundRat(n, 2 * d, e + 1)
  ELSE IF n < d * Pow2(MantBits - 1) THEN RoundRat(2 * n, d, e - 1)
  ELSE LET q == n \div d
           r == n % d
           up == 2 * r > d \/ (2 * r = d /\ q % 2 = 1)
           m == IF up THEN q + 1 ELSE q
       IN IF m = Pow2(MantBits) THEN <<Pow2(MantBits - 1), e + 1>> ELSE <<m, e>>

FloatToRat(f) == IF f[2] >= 0 THEN RInt(f[1] * Pow2(f[2])) ELSE Rat(f[1], Pow2(-f[2]))

\* ------------------------------------------------------------ RandomStream
\* An engine state is [stream, pos, x]: x is the generator's internal word, pos the
\* number of draws made since the stream's origin.  Stream 0 is the master sequence
\* seeded in genmt; stream k + 1 is the default-constructed engine of states[k].
SeededEngine == [stream |-> 0, pos |-> 0, x |-> SEED]
DefaultEngine(k) == [stream |-> k + 1, pos |-> 0, x |-> (3 + 7 * k) % RngMod]

\* flat(): advances the engine by one draw and returns a grid value in [0, 1)
Advance(e) == [e EXCEPT !.pos = @ + 1, !.x = (5 * @ + 1) % RngMod]
Flat(e) == (Advance(e).x * RngHalfOpen) \div RngMod

RECURSIVE Discard(_, _)
Discard(e, n) == IF n = 0 THEN e ELSE Discard(Advance(e), n - 1)

\* a block that forgets the dimension: one draw per point
SizeOfNoDimension(points) == points

\* settings.h: SIZE = POINTS * DIMENSION
SizeOf(points) == points * DIMENSION

\* ---------------------------------------------------- ReplicateSimulation
Uninit == <<-1, 0>>     \* an f64 that was never written

\* one iteration of the sampling loop: three draws, then the test sum < 1.
TrialDraws(e) ==
  <<<<e.stream, e.pos>>, <<e.stream, e.pos + 1>>, <<e.stream, e.pos + 2>>>>
\* a trial that draws two numbers only
TrialEngineTwo(e) == Advance(Advance(e))
TrialEngine(e) == Advance(Advance(Advance(e)))
TrialCoords(e) == <<Flat(e), Flat(Advance(e)), Flat(Advance(Advance(e)))>>
\* a test that leaves the third coordinate out
TrialInsideNoZ(e) ==
  LET x == Flat(e)
      y == Flat(Advance(e))
  IN x * x + y * y < RngHalfOpen * RngHalfOpen
TrialInside(e) ==
  LET x == Flat(e)
      y == Flat(Advance(e))
      z == Flat(Advance(Advance(e)))
  IN x * x + y * y + z * z < RngHalfOpen * RngHalfOpen

\* value = 8. * in / points.  Under -Ofast the build may divide, or multiply by the
\* rounded reciprocal of a divisor it knows at compile time.
ValueOf(in, points, eval) ==
  IF eval = "div" THEN RoundRat(8 * in, points, 0)
  ELSE LET r == RoundRat(1, points, 0)
       IN IF r[2] >= 0 THEN RoundRat(8 * in * r[1] * Pow2(r[2]), 1, 0)
          ELSE RoundRat(8 * in * r[1], Pow2(-r[2]), 0)
EvalModes == {"div", "recip"}

\* the whole sampling loop, run without interruption (the sequential pass)
RECURSIVE RunLoop(_, _, _, _, _)
RunLoop(e, n, in, ds, cs) ==
  IF n = 0 THEN [rng |-> e, in |-> in, draws |-> ds, coords |-> cs]
  ELSE RunLoop(TrialEngine(e), n - 1, IF TrialInside(e) THEN in + 1 ELSE in,
               ds \o TrialDraws(e), Append(cs, TrialCoords(e)))

Idx == 0 .. (REPLICATES - 1)
NoFile == [stream |-> -1, pos |-> 0, x |-> 0]
NoReport == [printed |-> FALSE]
NoArgs == <<>>

\* ------------------------------------------------------ StatisticsReporter
\* STUDENT[]: 99% Student coefficients, in thousandths, for k in 0..30 and
\* 40, 50, 60, 80, 100, 120, inf; entry 0 (k = 0) is INFINITY.
StudentMilli ==
  <<63660, 9925, 5841, 4604, 4032, 3707, 3499, 3355, 3250, 3169, 3106, 3055, 3012, 2977,
    2947, 2921, 2898, 2878, 2861, 2845, 2831, 2819, 2807, 2797, 2787, 2779, 2771, 2763,
    2756, 2750,
    2704, 2678, 2660, 2639, 2626, 2617, 2576>>
STUDENT == [k \in 0 .. Len(StudentMilli) |->
              IF k = 0 THEN PosInf ELSE Rat(StudentMilli[k], 1000)]

\* the exact tier cut at 20 instead of 30
StudentIndexTier20(replicates) ==
  IF replicates <= 20 THEN replicates
  ELSE IF replicates <= 60 THEN 27 + replicates \div 10
  ELSE IF replicates < 140 THEN 30 + replicates \div 20
  ELSE 37

\* the twenties tier one entry too far
StudentIndexTwentiesShifted(replicates) ==
  IF replicates <= 30 THEN replicates
  ELSE IF replicates <= 60 THEN 27 + replicates \div 10
  ELSE IF replicates < 140 THEN 31 + replicates \div 20
  ELSE 37

\* the index of the tiered lookup
\* the tens tier moved up by one entry
StudentIndexTensShifted(replicates) ==
  IF replicates <= 30 THEN replicates
  ELSE IF replicates <= 60 THEN 28 + replicates \div 10
  ELSE IF replicates < 140 THEN 30 + replicates \div 20
  ELSE 37
StudentIndex(replicates) ==
  IF replicates <= 30 THEN replicates
  ELSE IF replicates <= 60 THEN 27 + replicates \div 10
  ELSE IF replicates < 140 THEN 30 + replicates \div 20
  ELSE 37
StudentCoeff(replicates) == STUDENT[StudentIndex(replicates)]

\* 4 pi / 3, to six decimals
real_value == Rat(4188790, 1000000)

\* std::sqrt: exact on squares of rationals, otherwise rounded down to the grid
SqrtGrid == 100
RSqrt(q) ==
  IF q = NaN \/ q = NegInf THEN NaN
  ELSE IF q = PosInf THEN PosInf
  ELSE IF q[1] < 0 THEN NaN
  ELSE IF IsSquare(q[1]) /\ IsSquare(q[2]) THEN <<ISqrt(q[1]), ISqrt(q[2])>>
  ELSE Rat(ISqrt((q[1] * SqrtGrid * SqrtGrid) \div q[2]), SqrtGrid)

\* replicates * variance / (replicates - 1), replicates being unsigned: for
\* replicates = 0 the divisor wraps to UINT_MAX and the quotient is 0 * variance
UbVariance(variance, replicates) ==
  IF replicates = 0 THEN RMul(RInt(0), variance)
  ELSE RDiv(RMul(RInt(replicates), variance), RInt(replicates - 1))

\* R = sqrt(ub_variance / replicates) * STUDENT[...]
Radius(ub_variance, replicates) ==
  RMul(RSqrt(RDiv(ub_variance, RInt(replicates))), StudentCoeff(replicates))

\* the location without its reflection
LocationNoReflect(error, R) == RDiv(RMul(RAdd(error, R), RInt(100)), R)

\* location = (error + R) * 100 / R, reflected about 100 when above it
Location(error, R) ==
  LET location == RDiv(RMul(RAdd(error, R), RInt(100)), R)
  IN IF RLess(RInt(100), location) THEN RSub(RInt(200), location) ELSE location

\* printResult: the values it prints
PrintResult(m, variance, replicates) ==
  LET ub_variance == UbVariance(variance, replicates)
      error == RSub(real_value, m)
      R == Radius(ub_variance, replicates)
  IN [printed |-> TRUE,
      replicates |-> replicates,
      mean |-> m,
      variance |-> variance,
      ub_variance |-> ub_variance,
      error |-> error,
      index |-> StudentIndex(replicates),
      coeff |-> StudentCoeff(replicates),
      R |-> R,
      low |-> RSub(m, R),
      high |-> RAdd(m, R),
      location |-> Location(error, R),
      \* some divisor is zero: replicates - 1 (ub_variance), replicates (R)
      divZero |-> ((replicates # 0 /\ replicates - 1 = 0) \/ replicates = 0)]

\* ------------------------------------------------------------------ Init
Init ==
  /\ REPLICATES \in 0 .. MaxReplicates
  /\ POINTS \in 1 .. MaxPoints
  /\ evalPar \in EvalModes
  /\ evalSeq \in EvalModes
  /\ mtRng = SeededEngine
  /\ status = [k \in Idx |-> NoFile]
  /\ pc = "gen"
  /\ i = 0
  /\ rng = [k \in Idx |-> DefaultEngine(k)]
  /\ value = [k \in Idx |-> Uninit]
  /\ duration = [k \in Idx |-> 0]
  /\ thread = [k \in Idx |-> "none"]
  /\ remaining = [k \in Idx |-> 0]
  /\ inCnt = [k \in Idx |-> 0]
  /\ results = [k \in Idx |-> Uninit]
  /\ mean = RInt(0)
  /\ squared_mean = RInt(0)
  /\ report = NoReport
  /\ seqDuration = 0
  /\ verdict = [k \in Idx |-> "none"]
  /\ drawn = [k \in Idx |-> <<>>]
  /\ coords = [k \in Idx |-> <<>>]
  /\ loadFailed = {}
  /\ statArgs = NoArgs

config == <<REPLICATES, POINTS, evalPar, evalSeq>>
genVars == <<mtRng, status>>
recVars == <<rng, value, duration>>
thrVars == <<thread, remaining, inCnt>>
aggVars == <<results, mean, squared_mean, report, statArgs>>
seqVars == <<seqDuration, verdict>>
hist == <<drawn, coords>>

\* ----------------------------------------------------------------- genmt
\* an iteration that saves the status before it discards the block
GenStatusSaveFirst ==
  /\ pc = "gen"
  /\ i < REPLICATES
  /\ mtRng' = Discard(mtRng, SizeOf(POINTS))
  /\ status' = [status EXCEPT ![i] = mtRng]
  /\ i' = i + 1
  /\ UNCHANGED <<config, pc, recVars, thrVars, aggVars, seqVars, hist, loadFailed>>

\* one iteration of genmt's loop: discard SIZE draws, then save the status
GenStatus ==
  /\ pc = "gen"
  /\ i < REPLICATES
  /\ mtRng' = Discard(mtRng, SizeOf(POINTS))
  /\ status' = [status EXCEPT ![i] = mtRng']
  /\ i' = i + 1
  /\ UNCHANGED <<config, pc, recVars, thrVars, aggVars, seqVars, hist, loadFailed>>

\* genmt returns; estimation's main starts with its first loading loop
GenExit ==
  /\ pc = "gen"
  /\ i = REPLICATES
  /\ pc' = "load"
  /\ i' = 0
  /\ UNCHANGED <<config, genVars, recVars, thrVars, aggVars, seqVars, hist, loadFailed>>

\* ------------------------------------------------------------ estimation
\* restoreStatus: on a file it cannot read it reports on stderr and returns, the
\* engine keeping the state it had
RestoreStatus(e, file, ok) == IF ok /\ file # NoFile THEN file ELSE e

\* where main goes when a load has been attempted
AfterLoad(ok, at) == at

\* initRng(i) in either loading loop
InitRng ==
  /\ pc \in {"load", "reload"}
  /\ i < REPLICATES
  /\ \E ok \in BOOLEAN :
       /\ rng' = [rng EXCEPT ![i] = RestoreStatus(rng[i], status[i], ok)]
       /\ loadFailed' = IF ok THEN loadFailed ELSE loadFailed \cup {<<pc, i>>}
       /\ pc' = AfterLoad(ok, pc)
  /\ i' = i + 1
  /\ UNCHANGED <<config, genVars, value, duration, thrVars, aggVars, seqVars, hist>>

LoadExit ==
  /\ pc = "load"
  /\ i = REPLICATES
  /\ pc' = "start"
  /\ i' = 0
  /\ UNCHANGED <<config, genVars, recVars, thrVars, aggVars, seqVars, hist, loadFailed>>

\* state.start(): the thread begins computeSphereVolume(POINTS)
Start ==
  /\ pc = "start"
  /\ i < REPLICATES
  /\ thread' = [thread EXCEPT ![i] = "running"]
  /\ remaining' = [remaining EXCEPT ![i] = POINTS]
  /\ inCnt' = [inCnt EXCEPT ![i] = 0]
  /\ drawn' = [drawn EXCEPT ![i] = <<>>]
  /\ coords' = [coords EXCEPT ![i] = <<>>]
  /\ i' = i + 1
  /\ UNCHANGED <<config, genVars, pc, recVars, aggVars, seqVars, loadFailed>>

StartExit ==
  /\ pc = "start"
  /\ i = REPLICATES
  /\ pc' = "join"
  /\ i' = 0
  /\ mean' = RInt(0)
  /\ squared_mean' = RInt(0)
  /\ UNCHANGED <<config, genVars, recVars, thrVars, results, report, statArgs, seqVars,
                 hist, loadFailed>>

\* threads that all draw from the generator of record 0
ThreadTrialShared(k) ==
  /\ thread[k] = "running"
  /\ remaining[k] > 0
  /\ rng' = [rng EXCEPT ![0] = TrialEngine(rng[0])]
  /\ inCnt' = [inCnt EXCEPT ![k] = IF TrialInside(rng[0]) THEN @ + 1 ELSE @]
  /\ remaining' = [remaining EXCEPT ![k] = @ - 1]
  /\ drawn' = [drawn EXCEPT ![k] = @ \o TrialDraws(rng[0])]
  /\ coords' = [coords EXCEPT ![k] = Append(@, TrialCoords(rng[0]))]
  /\ UNCHANGED <<config, genVars, pc, i, value, duration, thread, aggVars, seqVars,
                 loadFailed>>

\* thread k: one iteration of the sampling loop
ThreadTrial(k) ==
  /\ thread[k] = "running"
  /\ remaining[k] > 0
  /\ rng' = [rng EXCEPT ![k] = TrialEngine(rng[k])]
  /\ inCnt' = [inCnt EXCEPT ![k] = IF TrialInside(rng[k]) THEN @ + 1 ELSE @]
  /\ remaining' = [remaining EXCEPT ![k] = @ - 1]
  /\ drawn' = [drawn EXCEPT ![k] = @ \o TrialDraws(rng[k])]
  /\ coords' = [coords EXCEPT ![k] = Append(@, TrialCoords(rng[k]))]
  /\ UNCHANGED <<config, genVars, pc, i, value, duration, thread, aggVars, seqVars,
                 loadFailed>>

\* a thread whose end the join never sees
ThreadFinishUnseen(k) ==
  /\ thread[k] = "running"
  /\ remaining[k] = 0
  /\ value' = [value EXCEPT ![k] = ValueOf(inCnt[k], POINTS, evalPar)]
  /\ \E t \in 1 .. MaxTicks : duration' = [duration EXCEPT ![k] = t]
  /\ thread' = [thread EXCEPT ![k] = "none"]
  /\ UNCHANGED <<config, genVars, pc, i, rng, remaining, inCnt, aggVars, seqVars, hist,
                 loadFailed>>

\* thread k: the loop is over; value and duration are written and the thread ends
ThreadFinish(k) ==
  /\ thread[k] = "running"
  /\ remaining[k] = 0
  /\ value' = [value EXCEPT ![k] = ValueOf(inCnt[k], POINTS, evalPar)]
  /\ \E t \in 1 .. MaxTicks : duration' = [duration EXCEPT ![k] = t]
  /\ thread' = [thread EXCEPT ![k] = "finished"]
  /\ UNCHANGED <<config, genVars, pc, i, rng, remaining, inCnt, aggVars, seqVars, hist,
                 loadFailed>>

\* a join that does not wait for the thread
CanJoinAnytime(k) == thread[k] \in {"running", "finished"}

\* mean += state.value
AddEstimate(acc, v) == RAdd(acc, v)
\* a sum of squares that forgets to square
AddSquareLinear(acc, v) == RAdd(acc, v)
\* squared_mean += state.value * state.value
AddSquare(acc, v) == RAdd(acc, RMul(v, v))
\* mean /= REPLICATES
DivideByCount(acc, n) == RDiv(acc, RInt(n))
\* the variance argument of the printResult call: squared_mean - mean * mean
VarianceArg(m, sq) == RSub(sq, RMul(m, m))

\* thread.join() returns once the thread has ended
CanJoin(k) == thread[k] = "finished"

Join ==
  /\ pc = "join"
  /\ i < REPLICATES
  /\ CanJoin(i)
  /\ thread' = [thread EXCEPT ![i] = IF @ = "finished" THEN "joined" ELSE @]
  /\ results' = [results EXCEPT ![i] = value[i]]
  /\ mean' = AddEstimate(mean, FloatToRat(value[i]))
  /\ squared_mean' = AddSquare(squared_mean, FloatToRat(value[i]))
  /\ i' = i + 1
  /\ UNCHANGED <<config, genVars, pc, recVars, remaining, inCnt, report, statArgs, seqVars,
                 hist, loadFailed>>

\* mean /= REPLICATES; squared_mean /= REPLICATES
JoinExit ==
  /\ pc = "join"
  /\ i = REPLICATES
  /\ mean' = DivideByCount(mean, REPLICATES)
  /\ squared_mean' = DivideByCount(squared_mean, REPLICATES)
  /\ pc' = "stats"
  /\ UNCHANGED <<config, genVars, i, recVars, thrVars, results, report, statArgs, seqVars,
                 hist, loadFailed>>

\* a main that goes from the statistics straight to the sequential loop
StatsSkipReload ==
  /\ pc = "stats"
  /\ statArgs' = [mean |-> mean,
                  variance |-> VarianceArg(mean, squared_mean),
                  replicates |-> REPLICATES]
  /\ report' = PrintResult(statArgs'.mean, statArgs'.variance, statArgs'.replicates)
  /\ pc' = "seq"
  /\ i' = 0
  /\ UNCHANGED <<config, genVars, recVars, thrVars, results, mean, squared_mean, seqVars,
                 hist, loadFailed>>

\* printResult(mean, squared_mean - mean * mean, REPLICATES)
Stats ==
  /\ pc = "stats"
  /\ statArgs' = [mean |-> mean,
                  variance |-> VarianceArg(mean, squared_mean),
                  replicates |-> REPLICATES]
  /\ report' = PrintResult(statArgs'.mean, statArgs'.variance, statArgs'.replicates)
  /\ pc' = "reload"
  /\ i' = 0
  /\ UNCHANGED <<config, genVars, recVars, thrVars, results, mean, squared_mean, seqVars,
                 hist, loadFailed>>

ReloadExit ==
  /\ pc = "reload"
  /\ i = REPLICATES
  /\ seqDuration' = 0
  /\ pc' = "seq"
  /\ i' = 0
  /\ UNCHANGED <<config, genVars, recVars, thrVars, aggVars, verdict, hist, loadFailed>>

\* a comparison that stops the run on a mismatch
AfterCompareFatal(same, k) == IF same THEN "seq" ELSE "aborted"

\* where main goes after comparing replicate k
AfterCompare(same, k) == "seq"

\* a sequential loop that stores its value over the collected one before comparing
SeqRunAliased ==
  /\ pc = "seq"
  /\ i < REPLICATES
  /\ LET run == RunLoop(rng[i], POINTS, 0, <<>>, <<>>)
         v == ValueOf(run.in, POINTS, evalSeq)
     IN /\ rng' = [rng EXCEPT ![i] = run.rng]
        /\ drawn' = [drawn EXCEPT ![i] = run.draws]
        /\ coords' = [coords EXCEPT ![i] = run.coords]
        /\ value' = [value EXCEPT ![i] = v]
        /\ results' = [results EXCEPT ![i] = v]
        /\ verdict' = [verdict EXCEPT ![i] = "confirmed"]
        /\ pc' = AfterCompare(TRUE, i)
  /\ \E t \in 1 .. MaxTicks :
       /\ duration' = [duration EXCEPT ![i] = t]
       /\ seqDuration' = seqDuration + t
  /\ i' = i + 1
  /\ UNCHANGED <<config, genVars, thrVars, mean, squared_mean, report, statArgs, loadFailed>>

\* one iteration of the sequential loop: run, compare bitwise, accumulate
SeqRun ==
  /\ pc = "seq"
  /\ i < REPLICATES
  /\ LET run == RunLoop(rng[i], POINTS, 0, <<>>, <<>>)
         v == ValueOf(run.in, POINTS, evalSeq)
     IN /\ rng' = [rng EXCEPT ![i] = run.rng]
        /\ drawn' = [drawn EXCEPT ![i] = run.draws]
        /\ coords' = [coords EXCEPT ![i] = run.coords]
        /\ value' = [value EXCEPT ![i] = v]
        /\ verdict' = [verdict EXCEPT ![i] = IF v = results[i] THEN "confirmed" ELSE "issue"]
        /\ pc' = AfterCompare(v = results[i], i)
  /\ \E t \in 1 .. MaxTicks :
       /\ duration' = [duration EXCEPT ![i] = t]
       /\ seqDuration' = seqDuration + t
  /\ i' = i + 1
  /\ UNCHANGED <<config, genVars, thrVars, aggVars, loadFailed>>

\* the sequential time is printed and main returns
SeqExit ==
  /\ pc = "seq"
  /\ i = REPLICATES
  /\ pc' = "done"
  /\ UNCHANGED <<config, genVars, i, recVars, thrVars, aggVars, seqVars, hist, loadFailed>>

Next ==
  \/ GenStatus
  \/ GenExit
  \/ InitRng
  \/ LoadExit
  \/ Start
  \/ StartExit
  \/ \E k \in Idx : ThreadTrial(k)
  \/ \E k \in Idx : ThreadFinish(k)
  \/ Join
  \/ JoinExit
  \/ Stats
  \/ ReloadExit
  \/ SeqRun
  \/ SeqExit

Spec == Init /\ [][Next]_vars

\* the steps of the main thread (genmt's, then estimation's)
Main ==
  \/ GenStatus \/ GenExit \/ InitRng \/ LoadExit \/ Start \/ StartExit
  \/ Join \/ JoinExit \/ Stats \/ ReloadExit \/ SeqRun \/ SeqExit
\* the steps of the thread of record k
Thread(k) == k \in Idx /\ (ThreadTrial(k) \/ ThreadFinish(k))

\* main's positions
PcValues == {"gen", "load", "start", "join", "stats", "reload", "seq", "done"}
\* main can run: it has not returned and is not blocked in a join
MainReady == pc # "done" /\ ((pc = "join" /\ i < REPLICATES) => CanJoin(i))
\* main moves on from where it is
MainAdvances ==
  /\ MainReady
  /\ pc' \in PcValues
  /\ i' \in 0 .. MaxReplicates
  /\ <<pc, i>>' # <<pc, i>>

\* thread k moves on: one more trial, or its end
ThreadAdvances(k) ==
  /\ k \in Idx
  /\ thread[k] = "running"
  /\ \/ /\ remaining[k] > 0
        /\ remaining' = [remaining EXCEPT ![k] = @ - 1]
        /\ thread' = thread
     \/ /\ remaining[k] = 0
        /\ thread' = [thread EXCEPT ![k] = "finished"]
        /\ remaining' = remaining

\* Every thread of the process is scheduled again and again.  The conditions are those
\* of WF_vars(Main) and WF_vars(Thread(k)), written on the variables that tell the
\* position of each thread: MainReady is the enabling condition of Main and the steps
\* of Spec that change <<pc, i>> are Main's; a started thread is always enabled and
\* the steps of Spec that satisfy ThreadAdvances(k) are Thread(k)'s.
SpecFair ==
  /\ Spec
  /\ WF_<<pc, i>>(MainAdvances)
  /\ \A k \in 0 .. MaxReplicates - 1 : WF_<<remaining, thread>>(ThreadAdvances(k))

\* ------------------------------------------- printResult on its own inputs
\* The arguments main can pass: NaN statistics for no replicate, a zero variance for
\* one, and otherwise a variance sigma^2 * (replicates - 1), whose radius is exact.
Means == {Rat(40, 10), Rat(418, 100), real_value, Rat(42, 10), Rat(45, 10),
          RAdd(real_value, Rat(2576, 10000))}
Sigmas == {RInt(0), Rat(1, 100), Rat(1, 10)}
\* replicate counts far above the last tier
LargeReplicates == {1000, 65536, 1000000000}
StatInputs ==
  {[mean |-> NaN, variance |-> NaN, replicates |-> 0]}
  \cup {[mean |-> m, variance |-> RInt(0), replicates |-> 1] : m \in Means}
  \cup {[mean |-> in[1], variance |-> RMul(RMul(in[2], in[2]), RInt(in[3] - 1)),
         replicates |-> in[3]] : in \in Means \X Sigmas \X (2 .. MaxStatReplicates)}
  \cup {[mean |-> m, variance |-> RInt(0), replicates |-> K] :
          m \in Means, K \in LargeReplicates}

InitStats ==
  /\ statArgs \in StatInputs
  /\ pc = "printResult"
  /\ report = NoReport
  /\ REPLICATES = 0
  /\ POINTS = 1
  /\ evalPar = "div"
  /\ evalSeq = "div"
  /\ mtRng = SeededEngine
  /\ status = [k \in Idx |-> NoFile]
  /\ i = 0
  /\ rng = [k \in Idx |-> DefaultEngine(k)]
  /\ value = [k \in Idx |-> Uninit]
  /\ duration = [k \in Idx |-> 0]
  /\ thread = [k \in Idx |-> "none"]
  /\ remaining = [k \in Idx |-> 0]
  /\ inCnt = [k \in Idx |-> 0]
  /\ results = [k \in Idx |-> Uninit]
  /\ mean = RInt(0)
  /\ squared_mean = RInt(0)
  /\ seqDuration = 0
  /\ verdict = [k \in Idx |-> "none"]
  /\ drawn = [k \in Idx |-> <<>>]
  /\ coords = [k \in Idx |-> <<>>]
  /\ loadFailed = {}

PrintResultCall ==
  /\ pc = "printResult"
  /\ report' = PrintResult(statArgs.mean, statArgs.variance, statArgs.replicates)
  /\ pc' = "printed"
  /\ UNCHANGED <<config, genVars, i, recVars, thrVars, results, mean, squared_mean,
                 statArgs, seqVars, hist, loadFailed>>

NextStats == PrintResultCall

SpecStats == InitStats /\ [][NextStats]_vars

\* ============================================================ properties
Range(f) == {f[n] : n \in DOMAIN f}
AllLoadsSucceeded == loadFailed = {}
\* the latest run of replicate k began at the state saved for k
RestoredRun(k) ==
  /\ status[k] # NoFile
  /\ drawn[k] # <<>>
  /\ drawn[k][1] = <<status[k].stream, status[k].pos>>
FullRun(k) == RestoredRun(k) /\ Len(drawn[k]) = SizeOf(POINTS)

\* C1: when every load succeeded, the sequential run of each replicate yields the
\* estimate its parallel run yielded, bit for bit: no replicate gets the verdict
\* "issue".
C1_Reproducible ==
  AllLoadsSucceeded =>
    \A k \in Idx : verdict[k] # "none" => (verdict[k] = "confirmed" /\ value[k] = results[k])

\* C2: the runs that began at the saved states of two different replicates draw
\* disjoint sets of positions of the master sequence.
C2_DisjointWindows ==
  \A j \in Idx : \A k \in Idx :
    (j # k /\ RestoredRun(j) /\ RestoredRun(k)) =>
      /\ Range(drawn[j]) \cap Range(drawn[k]) = {}
      /\ \A d \in Range(drawn[j]) \cup Range(drawn[k]) : d[1] = 0

C2_Witness ==
  /\ REPLICATES >= 2
  /\ FullRun(0)
  /\ FullRun(1)
  /\ POINTS >= 2

\* C3 as stated: the complete window of replicate k is the master positions
\* k * S .. (k + 1) * S - 1, in order.
C3_WindowAtIndex ==
  \A k \in Idx :
    FullRun(k) =>
      drawn[k] = [n \in 1 .. SizeOf(POINTS) |-> <<0, k * SizeOf(POINTS) + n - 1>>]

\* C3 amended: the complete window of replicate k is the master positions
\* (k + 1) * S .. (k + 2) * S - 1, in order: the K windows concatenate to the
\* K * S master draws that follow the first, discarded, block.
C3_WindowAfterDiscard ==
  \A k \in Idx :
    /\ status[k] # NoFile =>
         (status[k].stream = 0 /\ status[k].pos = (k + 1) * SizeOf(POINTS))
    /\ FullRun(k) =>
         drawn[k] = [n \in 1 .. SizeOf(POINTS) |-> <<0, (k + 1) * SizeOf(POINTS) + n - 1>>]

C3_Witness ==
  /\ REPLICATES >= 2
  /\ \A k \in Idx : FullRun(k)
  /\ pc = "done"

\* C4: printResult is entered, and a report exists, only when every one of the K
\* threads has ended and been joined and all K estimates have been collected.
C4_StatsAfterJoinAll ==
  (pc = "stats" \/ report.printed) =>
    /\ \A k \in Idx : thread[k] = "joined" /\ results[k] # Uninit
    /\ pc = "stats" => i = REPLICATES
    /\ report.printed => report.replicates = REPLICATES

C4_Witness ==
  /\ pc = "stats"
  /\ REPLICATES = MaxReplicates
  /\ POINTS > 1

\* C5: once a load of the first loading loop has failed, no thread is ever started
\* and no statistics are reported.
C5_LoadFailureAborts ==
  (\E k \in Idx : <<"load", k>> \in loadFailed) =>
    /\ \A k \in Idx : thread[k] = "none"
    /\ ~report.printed

\* C6: with K = 0 or K = 1 no report is produced from a division by zero.
C6_DegenerateKIsError ==
  REPLICATES <= 1 =>
    ~(report.printed /\ (report.divZero \/ report.mean = NaN \/ report.ub_variance = NaN))

\* C7: a mismatch never stops the run: once some replicate has the verdict "issue",
\* main is in the sequential loop (at an index whose iteration or exit can be taken)
\* or has returned from it, the statistics have been reported, and when main has
\* returned every replicate has been compared and the durations have been summed.
RECURSIVE SumDurations(_)
SumDurations(n) == IF n = 0 THEN 0 ELSE duration[n - 1] + SumDurations(n - 1)

C7_MismatchNotFatal ==
  (\E k \in Idx : verdict[k] = "issue") =>
    /\ pc \in {"seq", "done"}
    /\ report.printed
    /\ \A k \in Idx : k < i => verdict[k] # "none"
    /\ pc = "seq" => i <= REPLICATES
    /\ pc = "done" => (\A k \in Idx : verdict[k] # "none") /\ seqDuration = SumDurations(REPLICATES)

C7_Witness ==
  /\ pc = "done"
  /\ REPLICATES >= 2
  /\ verdict[0] = "issue"
  /\ verdict[1] = "confirmed"

\* C8 as stated: for every K in 1..31 the coefficient is the table entry at index K.
C8_ExactUpTo31 ==
  (report.printed /\ report.replicates \in 1 .. 31) =>
    /\ report.index = report.replicates
    /\ report.coeff = STUDENT[report.replicates]

\* C8 amended: for every K in 1..30 the coefficient is the table entry at index K,
\* and for K = 0 it is entry 0, which is infinite; K = 31 takes entry 30.
C8_ExactUpTo30 ==
  report.printed =>
    /\ report.replicates \in 0 .. 30 =>
         /\ report.index = report.replicates
         /\ report.coeff = STUDENT[report.replicates]
    /\ report.replicates = 0 => report.coeff = PosInf
    /\ report.replicates = 31 => report.index = 30 /\ report.coeff = STUDENT[30]

C8_Witness ==
  /\ report.printed
  /\ report.replicates = 30
  /\ report.coeff = Rat(2750, 1000)

\* the k each table entry stands for: 0..30, then 40, 50, 60, 80, 100, 120
StudentLabel == [n \in 0 .. 36 |->
                   IF n <= 30 THEN n
                   ELSE IF n <= 33 THEN 40 + 10 * (n - 31)
                   ELSE 80 + 20 * (n - 34)]
EntryFor(k) == STUDENT[CHOOSE n \in DOMAIN StudentLabel : StudentLabel[n] = k]

\* C9: for K in 31..60 the coefficient is the entry of the ten K falls in, for K in
\* 60..139 the entry of the twenty K falls in, and for K >= 140 it is 2.576; at
\* K = 60 the two rules select the same entry.
C9_Buckets ==
  report.printed =>
    LET K == report.replicates
    IN /\ (31 <= K /\ K <= 60) => report.coeff = EntryFor((K \div 10) * 10)
       /\ (60 <= K /\ K < 140) => report.coeff = EntryFor((K \div 20) * 20)
       /\ K >= 140 => report.coeff = Rat(2576, 1000)

C9_Witness ==
  /\ report.printed
  /\ report.replicates = 60
  /\ report.coeff = Rat(2660, 1000)

\* C10: for a finite R > 0 the location is 100 - 100 * |error| / R; it is the same
\* for error and -error, is at most 100, and is in [0, 100] exactly when the true
\* value is in [mean - R, mean + R].
C10_Location ==
  (report.printed /\ IsFinite(report.R) /\ report.R[1] > 0) =>
    LET e == report.error
        R == report.R
        loc == report.location
        inside == RLeq(report.low, real_value) /\ RLeq(real_value, report.high)
    IN /\ loc = RSub(RInt(100), RDiv(RMul(RInt(100), RAbs(e)), R))
       /\ Location(RNeg(e), R) = loc
       /\ RLeq(loc, RInt(100))
       /\ (RLeq(RInt(0), loc) /\ RLeq(loc, RInt(100))) <=> inside

C10_Witness ==
  /\ report.printed
  /\ IsFinite(report.R)
  /\ report.R[1] > 0
  /\ report.error[1] > 0
  /\ RLess(RInt(0), report.location)
  /\ RLess(report.location, RInt(100))

\* ------------------------------------- the aggregation on its own inputs
\* main's join loop, its two divisions and its printResult call, applied to
\* estimates given as exact reals in results[].
Estimates == {Rat(41, 10), Rat(42, 10), Rat(43, 10), RInt(0), RInt(8)}

InitAgg ==
  /\ REPLICATES \in 2 .. MaxAggReplicates
  /\ results \in [Idx -> Estimates]
  /\ pc = "join"
  /\ i = 0
  /\ mean = RInt(0)
  /\ squared_mean = RInt(0)
  /\ report = NoReport
  /\ statArgs = NoArgs
  /\ POINTS = 1
  /\ evalPar = "div"
  /\ evalSeq = "div"
  /\ mtRng = SeededEngine
  /\ status = [k \in Idx |-> NoFile]
  /\ rng = [k \in Idx |-> DefaultEngine(k)]
  /\ value = [k \in Idx |-> Uninit]
  /\ duration = [k \in Idx |-> 0]
  /\ thread = [k \in Idx |-> "joined"]
  /\ remaining = [k \in Idx |-> 0]
  /\ inCnt = [k \in Idx |-> 0]
  /\ seqDuration = 0
  /\ verdict = [k \in Idx |-> "none"]
  /\ drawn = [k \in Idx |-> <<>>]
  /\ coords = [k \in Idx |-> <<>>]
  /\ loadFailed = {}

\* one iteration of the join loop on the given estimate
AggJoin ==
  /\ pc = "join"
  /\ i < REPLICATES
  /\ mean' = AddEstimate(mean, results[i])
  /\ squared_mean' = AddSquare(squared_mean, results[i])
  /\ i' = i + 1
  /\ UNCHANGED <<config, genVars, pc, recVars, thrVars, results, report, statArgs, seqVars,
                 hist, loadFailed>>

NextAgg ==
  \/ AggJoin
  \/ JoinExit
  \/ Stats

SpecAgg == InitAgg /\ [][NextAgg]_vars

RECURSIVE SumTo(_, _)
SumTo(f, n) == IF n = 0 THEN RInt(0) ELSE RAdd(f[n - 1], SumTo(f, n - 1))

\* C11: for K >= 2 estimates the reported mean is their sum divided by K, the
\* reported variance is the mean of the squared deviations from that mean (the
\* population variance, never negative), and the unbiased variance is the variance
\* times K / (K - 1); for 4.1, 4.2, 4.3 they are 4.2, 1/150 and 0.01.
C11_Statistics ==
  (report.printed /\ report.replicates >= 2) =>
    LET K == report.replicates
        mu == RDiv(SumTo(results, K), RInt(K))
        dev == [k \in Idx |-> RMul(RSub(results[k], mu), RSub(results[k], mu))]
        pop == RDiv(SumTo(dev, K), RInt(K))
    IN /\ K = REPLICATES
       /\ report.mean = mu
       /\ report.variance = pop
       /\ RLeq(RInt(0), report.variance)
       /\ report.ub_variance = RDiv(RMul(report.variance, RInt(K)), RInt(K - 1))
       /\ results = [k \in 0 .. 2 |-> Rat(41 + k, 10)] =>
            /\ report.mean = Rat(42, 10)
            /\ report.variance = Rat(1, 150)
            /\ report.ub_variance = Rat(1, 100)

C11_Witness ==
  /\ report.printed
  /\ REPLICATES = 3
  /\ results = [k \in Idx |-> Rat(41 + k, 10)]
  /\ report.mean = Rat(42, 10)

\* the trials of a run whose point is strictly inside the unit sphere
InsideTrials(cs) ==
  {n \in DOMAIN cs :
     cs[n][1] * cs[n][1] + cs[n][2] * cs[n][2] + cs[n][3] * cs[n][3]
       < RngHalfOpen * RngHalfOpen}

\* C12: in every run the counter is the number of trials made so far whose point is
\* strictly inside the sphere, so it is between 0 and the number of points, and
\* the estimate written at the end is 8 * counter / points, a value in [0, 8].
C12_InsideCount ==
  \A k \in Idx :
    /\ thread[k] \in {"running", "finished"} =>
         /\ Len(coords[k]) = POINTS - remaining[k]
         /\ inCnt[k] = Cardinality(InsideTrials(coords[k]))
         /\ 0 <= inCnt[k] /\ inCnt[k] <= POINTS
    /\ value[k] # Uninit =>
         /\ Len(coords[k]) = POINTS
         /\ \E eval \in EvalModes :
              value[k] = ValueOf(Cardinality(InsideTrials(coords[k])), POINTS, eval)
         /\ RLeq(RInt(0), FloatToRat(value[k]))
         /\ RLeq(FloatToRat(value[k]), RInt(8))

C12_Witness ==
  /\ pc = "done"
  /\ POINTS = MaxPoints
  /\ \E k \in Idx :
       /\ Cardinality(InsideTrials(coords[k])) \in 1 .. (POINTS - 1)
       /\ value[k] = ValueOf(Cardinality(InsideTrials(coords[k])), POINTS, evalSeq)

\* C13: the reload and the sequential loop start only when every thread has been
\* joined; a replicate waiting for its sequential run holds the state read back from
\* its file (when that file could be read); the sequential runs go in index order,
\* one per step of main: exactly the replicates below i have been run and compared.
C13_SequentialAfterParallel ==
  /\ pc \in {"reload", "seq", "done"} =>
       /\ \A k \in Idx : thread[k] = "joined"
       /\ report.printed
  /\ pc = "seq" =>
       \A k \in Idx :
         /\ (k >= i /\ <<"reload", k>> \notin loadFailed) => rng[k] = status[k]
         /\ verdict[k] # "none" <=> k < i
  /\ pc \in {"gen", "load", "start", "join", "stats", "reload"} =>
       \A k \in Idx : verdict[k] = "none"

C13_Witness ==
  /\ pc = "seq"
  /\ REPLICATES = 2
  /\ i = 1
  /\ loadFailed = {}
  /\ verdict[0] # "none"
  /\ verdict[1] = "none"
  /\ rng[1] = status[1]
  /\ rng[0] # status[0]

\* a step of main: it moves main's position
MainStep == <<pc, i>>' # <<pc, i>>
\* a step of thread k: its loop advances or it ends
ThreadStep(k) ==
  \/ remaining'[k] < remaining[k]
  \/ thread[k] = "running" /\ thread'[k] = "finished"
\* record k as the threads and main's loops see it
Record(k) == <<rng[k], value[k], duration[k]>>

\* C14: a step of thread k changes record k only, and nothing main owns; a step of main
\* that reads or writes record i (a load, a start, a join, a sequential run) is taken
\* only while no thread is running on record i, and a join reads the value of a thread
\* that has ended.
C14_NoSharedRecord ==
  [][/\ \A k \in Idx : ThreadStep(k) =>
          /\ ~MainStep
          /\ \A j \in Idx \ {k} : Record(j)' = Record(j) /\ thread'[j] = thread[j]
          /\ <<results, mean, squared_mean, report, verdict>>'
               = <<results, mean, squared_mean, report, verdict>>
     /\ (MainStep /\ i < REPLICATES) =>
          /\ thread[i] # "running"
          /\ pc = "join" => (thread[i] = "finished" /\ results'[i] = value[i])
          /\ \A j \in Idx \ {i} : Record(j)' = Record(j)]_vars

C14_Witness ==
  /\ pc = "join"
  /\ REPLICATES = 2
  /\ thread[0] = "running" /\ 0 < remaining[0] /\ remaining[0] < POINTS
  /\ thread[1] = "running" /\ 0 < remaining[1] /\ remaining[1] < POINTS
  /\ rng[0] # status[0]
  /\ rng[1] # status[1]

\* C15: results[k] is written once, by the join of thread k, with the value thread k
\* wrote once when it ended; the reload and the sequential loop leave results alone,
\* and the sequential run of replicate i, which overwrites value[i] and duration[i],
\* is compared with that stored value.
C15_ResultsKept ==
  [][/\ \A k \in Idx :
          /\ results'[k] # results[k] =>
               /\ pc = "join" /\ i = k /\ thread[k] = "finished"
               /\ results[k] = Uninit
               /\ results'[k] = value[k]
          /\ (thread[k] = "running" /\ value'[k] # value[k]) =>
               (value[k] = Uninit /\ thread'[k] = "finished")
          /\ thread[k] = "finished" => value'[k] = value[k]
     /\ pc \in {"stats", "reload", "seq", "done"} => results' = results
     /\ (pc = "seq" /\ i' = i + 1) =>
          /\ value'[i] = ValueOf(Cardinality(InsideTrials(coords'[i])), POINTS, evalSeq)
          /\ duration'[i] \in 1 .. MaxTicks
          /\ verdict'[i] = "confirmed" <=> value'[i] = results[i]
          /\ verdict'[i] = "issue" <=> value'[i] # results[i]]_vars

C15_Witness ==
  /\ pc = "done"
  /\ \E k \in Idx :
       /\ results[k] # Uninit
       /\ value[k] # results[k]
       /\ verdict[k] = "issue"
  /\ \E k \in Idx :
       /\ results[k] # Uninit
       /\ value[k] = results[k]
       /\ verdict[k] = "confirmed"

\* C16: under fair scheduling the run ends: every thread has finished and been joined,
\* the statistics have been printed, every replicate has had its sequential run and
\* the summed sequential duration is what main prints last; once printed, the
\* statistics are never printed again.
C16_Terminates ==
  /\ <>(/\ pc = "done"
        /\ \A k \in Idx : thread[k] = "joined" /\ verdict[k] # "none"
        /\ report.printed
        /\ report.replicates = REPLICATES
        /\ seqDuration >= REPLICATES)
  /\ [][report.printed => report' = report]_vars
  /\ [][pc = "done" => UNCHANGED vars]_vars

C16_Witness ==
  /\ pc = "done"
  /\ REPLICATES = MaxReplicates
  /\ loadFailed = {}
  /\ \A k \in Idx : thread[k] = "joined" /\ verdict[k] # "none"
  /\ report.printed
  /\ seqDuration >= REPLICATES

\* the latest run of replicate k is over and its engine has not been reloaded since
RunEnded(k) == thread[k] = "finished" \/ (pc = "seq" /\ k < i) \/ pc = "done"

\* C17: a run draws three numbers per trial, inside or not, from consecutive positions
\* of its stream, so a run of POINTS points moves its engine by SIZE draws; SIZE is
\* also the distance between two consecutive saved states, so the complete run that
\* began at the state saved for k ends at the state saved for k + 1.
C17_RunConsumesSize ==
  \A k \in Idx :
    /\ Len(drawn[k]) = DIMENSION * Len(coords[k])
    /\ \A n \in DOMAIN drawn[k] : drawn[k][n] = <<drawn[k][1][1], drawn[k][1][2] + n - 1>>
    /\ (thread[k] = "running" /\ drawn[k] # <<>>) =>
         /\ rng[k].stream = drawn[k][1][1]
         /\ rng[k].pos = drawn[k][1][2] + DIMENSION * (POINTS - remaining[k])
    /\ RunEnded(k) =>
         /\ Len(coords[k]) = POINTS
         /\ Len(drawn[k]) = SizeOf(POINTS)
         /\ rng[k].stream = drawn[k][1][1]
         /\ rng[k].pos = drawn[k][1][2] + SizeOf(POINTS)
    /\ (k + 1 \in Idx /\ status[k] # NoFile /\ status[k + 1] # NoFile) =>
         status[k + 1] = Discard(status[k], SizeOf(POINTS))
    /\ (k + 1 \in Idx /\ status[k + 1] # NoFile /\ RunEnded(k) /\ FullRun(k)) =>
         rng[k] = status[k + 1]

C17_Witness ==
  /\ pc = "done"
  /\ REPLICATES = 2
  /\ POINTS = MaxPoints
  /\ FullRun(0)
  /\ rng[0] = status[1]
  /\ Len(drawn[0]) = DIMENSION * POINTS
  /\ \E k \in Idx : FullRun(k) /\ Cardinality(InsideTrials(coords[k])) < POINTS

\* ---------------------------------------------- settings.h in 32-bit unsigned
\* An unsigned is two 16-bit limbs <<high, low>>; a product before truncation has a
\* third limb on top.
Limb == 65536
U32(n) == <<n \div Limb, n % Limb>>
MulWide(a, d) ==
  LET lo == a[2] * d
      hi == a[1] * d + lo \div Limb
  IN <<hi \div Limb, hi % Limb, lo % Limb>>
\* a product kept in a signed int's 31 value bits
Int31Mul(a, d) == <<MulWide(a, d)[2] % (Limb \div 2), MulWide(a, d)[3]>>
\* unsigned * unsigned: the product modulo 2^32
U32Mul(a, d) == <<MulWide(a, d)[2], MulWide(a, d)[3]>>
\* constexpr unsigned SIZE = POINTS * DIMENSION
SIZE(points) == U32Mul(U32(points), DIMENSION)

\* the configured POINTS, and the grid of other values SIZE is computed for
ConfiguredPoints == 1000000000
PointsStep == 25000000

InitSize ==
  /\ POINTS \in {PointsStep * m : m \in 1 .. MaxSizeSteps}
  /\ pc = "settings"
  /\ statArgs = NoArgs
  /\ report = NoReport
  /\ REPLICATES = 0
  /\ evalPar = "div"
  /\ evalSeq = "div"
  /\ mtRng = SeededEngine
  /\ status = [k \in Idx |-> NoFile]
  /\ i = 0
  /\ rng = [k \in Idx |-> DefaultEngine(k)]
  /\ value = [k \in Idx |-> Uninit]
  /\ duration = [k \in Idx |-> 0]
  /\ thread = [k \in Idx |-> "none"]
  /\ remaining = [k \in Idx |-> 0]
  /\ inCnt = [k \in Idx |-> 0]
  /\ results = [k \in Idx |-> Uninit]
  /\ mean = RInt(0)
  /\ squared_mean = RInt(0)
  /\ seqDuration = 0
  /\ verdict = [k \in Idx |-> "none"]
  /\ drawn = [k \in Idx |-> <<>>]
  /\ coords = [k \in Idx |-> <<>>]
  /\ loadFailed = {}

\* settings.h is compiled: SIZE gets its value
Settings ==
  /\ pc = "settings"
  /\ statArgs' = [exact |-> MulWide(U32(POINTS), DIMENSION), SIZE |-> SIZE(POINTS)]
  /\ pc' = "gen"
  /\ UNCHANGED <<config, genVars, i, recVars, thrVars, results, mean, squared_mean, report,
                 seqVars, hist, loadFailed>>

\* genmt's discard loop: the unsigned counter u starts at SIZE and counts down to 0
DiscardBlock ==
  /\ pc = "gen"
  /\ statArgs' = [exact |-> statArgs.exact, SIZE |-> statArgs.SIZE, u |-> <<0, 0>>,
                  discarded |-> statArgs.SIZE]
  /\ pc' = "saved"
  /\ UNCHANGED <<config, genVars, i, recVars, thrVars, results, mean, squared_mean, report,
                 seqVars, hist, loadFailed>>

NextSize ==
  \/ Settings
  \/ DiscardBlock

SpecSize == InitSize /\ [][NextSize]_vars

\* the decimal digits of an unsigned, most significant first
DivTen(u) ==
  LET t == (u[1] % 10) * Limb + u[2]
  IN [q |-> <<u[1] \div 10, t \div 10>>, r |-> t % 10]
RECURSIVE Decimal(_)
Decimal(u) == IF u = <<0, 0>> THEN <<>> ELSE Append(Decimal(DivTen(u).q), DivTen(u).r)

\* the digits of digits * d, by the written method (d a single digit)
RECURSIVE DecMul(_, _, _)
DecMul(ds, d, carry) ==
  IF ds = <<>> THEN (IF carry = 0 THEN <<>> ELSE <<carry>>)
  ELSE LET t == ds[Len(ds)] * d + carry
       IN Append(DecMul(SubSeq(ds, 1, Len(ds) - 1), d, t \div 10), t % 10)

\* C18: for the configured POINTS the product POINTS * DIMENSION fits 32 bits: SIZE is
\* the exact product, 3,000,000,000, and genmt's loop discards that many draws; the
\* same holds for every smaller POINTS of the grid.
C18_SizeNoWrap ==
  (pc \in {"gen", "saved"} /\ POINTS <= ConfiguredPoints) =>
    /\ Decimal(statArgs.SIZE) = DecMul(Decimal(U32(POINTS)), DIMENSION, 0)
    /\ statArgs.exact[1] = 0
    /\ POINTS = ConfiguredPoints =>
         /\ Decimal(U32(POINTS)) = <<1, 0, 0, 0, 0, 0, 0, 0, 0, 0>>
         /\ Decimal(statArgs.SIZE) = <<3, 0, 0, 0, 0, 0, 0, 0, 0, 0>>
    /\ pc = "saved" => statArgs.discarded = statArgs.SIZE

C18_Witness ==
  /\ pc = "saved"
  /\ POINTS = ConfiguredPoints
  /\ statArgs.discarded = <<45776, 24064>>
  /\ statArgs.exact[1] = 0

\* C19: whatever the replicate count K, the index the tiers compute is an index of the
\* 38-entry table, and the coefficient selected for K + 1 is not above the one selected
\* for K; nor is the one of any larger K up to the bound.
C19_IndexInTable ==
  report.printed =>
    /\ DOMAIN STUDENT = 0 .. 37
    /\ report.index \in DOMAIN STUDENT
    /\ report.coeff = STUDENT[report.index]
    /\ StudentIndex(report.replicates + 1) \in DOMAIN STUDENT
    /\ StudentIndex(report.replicates + 1) >= report.index
    /\ RLeq(StudentCoeff(report.replicates + 1), report.coeff)
    /\ \A K \in report.replicates .. MaxStatReplicates :
         RLeq(StudentCoeff(K), report.coeff)
    /\ \A K \in LargeReplicates :
         K >= report.replicates => RLeq(StudentCoeff(K), report.coeff)

C19_Witness ==
  /\ report.printed
  /\ report.replicates = 1000000000
  /\ report.index = 37
  /\ report.coeff = STUDENT[37]

====
